---- MODULE Spec2Model ----
(***************************************************************************)
(* PIN-based messaging application: the Postgres schema with its row-level *)
(* security policies and generate_unique_pin (supabase migration), the     *)
(* auth store (signUp, signIn, signOut, fetchProfile), the chat store      *)
(* (sendMessage, fetchChats, subscribeToChats) and the Chat page's         *)
(* handlers and effects.                                                   *)
(***************************************************************************)
EXTENDS Integers, Sequences, FiniteSets, TLC

\* ------------------------------------------------------------- bounds
\* Accounts the identity provider may hold (uuids are named 1..MaxUsers).
MaxUsers == 3
\* Candidates FLOOR(RANDOM() * 1000000) may produce: 0..PinSpace-1.
PinSpace == 4
\* Concurrent signUp calls (one per browser tab).
MaxSignUps == 2
\* handleAddContact calls in flight at once (clicks on Add before a reply).
MaxAddContacts == 2
\* Realtime channel registrations the browser may hold.
MaxChannels == 2
\* fetchChats calls in flight at once.
MaxFetches == 2
\* Rows of chats: in SpecChat, and in SpecFetch.
MaxChats == 2
MaxFetchedChats == 3
\* Accounts that sign in on the browser: users 1..MaxContactUsers in
\* SpecContacts, 1..MaxChatUsers in SpecChat.
MaxContactUsers == 2
MaxChatUsers == 1
\* created_at values: 1..MaxTime.
MaxTime == 2

\* ------------------------------------------------------- program constants
\* LPAD(..., 6, '0')
PinLen == 6

None == 0
Users == 1..MaxUsers
SignUpTasks == 1..MaxSignUps
AddContactSlots == 1..MaxAddContacts

\* ------------------------------------------------------------- state
VARIABLES
  accounts,     \* auth.users: the ids of the identity provider's accounts
  profiles,     \* table profiles: rows [id, private_pin]
  connections,  \* table connections: rows [id, user_id, connected_user_id]
  chats,        \* table chats: rows [id, sender_id, receiver_id, message, created_at]
  sqlstate,     \* SQLSTATE of the last statement the database ran
  signUps,      \* the signUp calls in flight: [pc, id, hasSession, pin, user]
  session,      \* the browser's auth session: the signed-in account, or None
  user,         \* useAuthStore.user: the profile's id, or None
  pageConnections, \* Chat's connections state: the contacts' profile ids
  error,        \* Chat's error state
  addContacts,  \* the handleAddContact calls in flight
  currentChat,  \* useChatStore.currentChat: the contact's profile id, or None
  storeChats,   \* useChatStore.chats: the list the page renders
  fetches,      \* the fetchChats calls in flight
  channels,     \* the realtime channel registrations of the browser
  inbox,        \* realtime payloads pushed to the browser, not yet handled
  filterReading \* how the realtime server reads the subscription's filter

dbVars == <<accounts, profiles, connections, chats, sqlstate>>
authVars == <<session, user>>
pageVars == <<pageConnections, error, addContacts>>
chatVars == <<currentChat, storeChats, fetches, channels, inbox, filterReading>>
vars == <<dbVars, signUps, authVars, pageVars, chatVars>>

\* ------------------------------------------------------------ PIN text
RECURSIVE Digits(_)
\* n::text, the decimal digits of n, most significant first
Digits(n) == IF n < 10 THEN <<n>> ELSE Append(Digits(n \div 10), n % 10)

RECURSIVE LPad(_, _, _)
\* LPAD(s, len, fill): s cut to len when longer, else filled on the left
LPad(s, len, fill) ==
  IF Len(s) > len THEN SubSeq(s, 1, len)
  ELSE IF Len(s) = len THEN s
  ELSE LPad(<<fill>> \o s, len, fill)

\* new_pin := LPAD(FLOOR(RANDOM() * 1000000)::text, 6, '0') for random value n
PinText(n) == LPad(Digits(n), PinLen, 0)

PinCandidates == { PinText(n) : n \in 0..(PinSpace - 1) }

\* ------------------------------------------------ database: who is asking
\* The role and auth.uid() a statement runs with.
Anon == [role |-> "anon", uid |-> None]
Authenticated(u) == [role |-> "authenticated", uid |-> u]
\* The tables' owner: row-level security does not apply to it.
Owner == [role |-> "postgres", uid |-> None]

\* What the browser's supabase client sends for session s (None: signed out).
ClientCtx(s) == IF s = None THEN Anon ELSE Authenticated(s)

BypassRls(ctx) == ctx.role = "postgres"

\* CREATE POLICY "Users can read all profiles" FOR SELECT TO authenticated USING (true)
ProfilesSelectPolicy(ctx, row) == ctx.role = "authenticated"

\* profiles has row-level security enabled and no policy FOR INSERT
ProfilesInsertPolicy(ctx, row) == FALSE

\* The rows of profiles a SELECT by ctx sees.
VisibleProfiles(ctx) ==
  { p \in profiles : BypassRls(ctx) \/ ProfilesSelectPolicy(ctx, p) }

\* id uuid PRIMARY KEY
ProfilesPrimaryKey(row) == \A p \in profiles : p.id # row.id

\* private_pin text UNIQUE, with the constraint left out
ProfilesPinUnique_Dropped(row) == TRUE

\* private_pin text UNIQUE
ProfilesPinUnique(row) == \A p \in profiles : p.private_pin # row.private_pin

\* id ... REFERENCES auth.users(id)
ProfilesForeignKey(row) == row.id \in accounts

\* INSERT INTO profiles by ctx: the SQLSTATE it ends with ("00000": inserted).
\* The policy is checked before the constraints, the foreign key last.
InsertProfileState(ctx, row) ==
  IF ~(BypassRls(ctx) \/ ProfilesInsertPolicy(ctx, row)) THEN "42501"
  ELSE IF ~ProfilesPrimaryKey(row) THEN "23505 profiles_pkey"
  ELSE IF ~ProfilesPinUnique(row) THEN "23505 profiles_private_pin_key"
  ELSE IF ~ProfilesForeignKey(row) THEN "23503"
  ELSE "00000"

\* generate_unique_pin() run by ctx: the values the loop may return, a
\* candidate for which SELECT EXISTS (... WHERE private_pin = new_pin) is
\* false among the rows ctx sees.
GenerateUniquePin(ctx) ==
  { c \in PinCandidates : ~\E p \in VisibleProfiles(ctx) : p.private_pin = c }

\* --------------------------------------------------- table connections
\* CREATE POLICY "Users can read own connections" FOR SELECT TO authenticated
\*   USING (auth.uid() = user_id OR auth.uid() = connected_user_id)
ConnectionsSelectPolicy(ctx, row) ==
  /\ ctx.role = "authenticated"
  /\ (ctx.uid = row.user_id \/ ctx.uid = row.connected_user_id)

\* CREATE POLICY "Users can create own connections" FOR INSERT TO authenticated
\*   WITH CHECK (auth.uid() = user_id)
ConnectionsInsertPolicy(ctx, row) ==
  ctx.role = "authenticated" /\ ctx.uid = row.user_id

\* UNIQUE(user_id, connected_user_id), with the constraint left out
ConnectionsUnique_Dropped(row) == TRUE

\* UNIQUE(user_id, connected_user_id)
ConnectionsUnique(row) ==
  \A c \in connections :
    ~(c.user_id = row.user_id /\ c.connected_user_id = row.connected_user_id)

\* user_id, connected_user_id uuid REFERENCES profiles(id)
ConnectionsForeignKeys(row) ==
  /\ \E p \in profiles : p.id = row.user_id
  /\ \E p \in profiles : p.id = row.connected_user_id

\* id uuid PRIMARY KEY DEFAULT gen_random_uuid(): a fresh id
NewConnectionId == Cardinality(connections) + 1

\* INSERT INTO connections by ctx: the SQLSTATE it ends with.
InsertConnectionState(ctx, row) ==
  IF ~(BypassRls(ctx) \/ ConnectionsInsertPolicy(ctx, row)) THEN "42501"
  ELSE IF ~ConnectionsUnique(row)
    THEN "23505 connections_user_id_connected_user_id_key"
  ELSE IF ~ConnectionsForeignKeys(row) THEN "23503"
  ELSE "00000"

\* --------------------------------------------------------- table chats
\* CREATE POLICY "Users can read their own chats" FOR SELECT TO authenticated
\*   USING (auth.uid() = sender_id OR auth.uid() = receiver_id)
ChatsSelectPolicy(ctx, row) ==
  /\ ctx.role = "authenticated"
  /\ (ctx.uid = row.sender_id \/ ctx.uid = row.receiver_id)

\* CREATE POLICY "Users can send messages" FOR INSERT TO authenticated
\*   WITH CHECK (auth.uid() = sender_id); a NULL sender_id does not pass
ChatsInsertPolicy(ctx, row) ==
  /\ ctx.role = "authenticated"
  /\ row.sender_id # None
  /\ ctx.uid = row.sender_id

\* The rows of table cs a SELECT by ctx sees.
VisibleChats(cs, ctx) ==
  { m \in cs : BypassRls(ctx) \/ ChatsSelectPolicy(ctx, m) }

\* sender_id, receiver_id uuid ... NOT NULL
ChatsNotNull(row) == row.sender_id # None /\ row.receiver_id # None

\* sender_id, receiver_id uuid REFERENCES profiles(id)
ChatsForeignKeys(row) ==
  /\ \E p \in profiles : p.id = row.sender_id
  /\ \E p \in profiles : p.id = row.receiver_id

\* INSERT INTO chats by ctx: the SQLSTATE it ends with.
InsertChatState(ctx, row) ==
  IF ~(BypassRls(ctx) \/ ChatsInsertPolicy(ctx, row)) THEN "42501"
  ELSE IF ~ChatsNotNull(row) THEN "23502"
  ELSE IF ~ChatsForeignKeys(row) THEN "23503"
  ELSE "00000"

\* id uuid PRIMARY KEY DEFAULT gen_random_uuid(): a fresh id
NewChatId == Cardinality(chats) + 1

\* ------------------------------------------------------------- signUp
NoSignUp == [pc |-> "signUp", id |-> None, hasSession |-> FALSE,
             pin |-> <<>>, user |-> None]

\* The uuid the identity provider gives the next account.
NewAccountId == Cardinality(accounts) + 1

\* The request context of sign-up task t: its tab holds a session only when
\* auth.signUp returned one.
SignUpCtx(t) ==
  IF signUps[t].hasSession THEN Authenticated(signUps[t].id) ELSE Anon

\* signUp, to the first await: supabase.auth.signUp({email, password}).
\* created = FALSE: authError, thrown. hasSession: whether the provider
\* signs the new account in at once (no e-mail confirmation).
SignUpAuth(t, created, hasSession) ==
  /\ signUps[t].pc = "signUp"
  /\ IF created
     THEN /\ Cardinality(accounts) < MaxUsers
          /\ accounts' = accounts \cup {NewAccountId}
          /\ signUps' = [signUps EXCEPT ![t] =
                [@ EXCEPT !.pc = "generatePin", !.id = NewAccountId,
                          !.hasSession = hasSession]]
     ELSE /\ accounts' = accounts
          /\ signUps' = [signUps EXCEPT ![t].pc = "authError"]
  /\ UNCHANGED <<profiles, connections, chats, sqlstate, authVars, pageVars, chatVars>>

\* generatePin: supabase.rpc('generate_unique_pin'). ok = FALSE: the rpc's
\* error, thrown out of signUp.
GeneratePin(t, ok, pin) ==
  /\ signUps[t].pc = "generatePin"
  /\ IF ok
     THEN /\ pin \in GenerateUniquePin(SignUpCtx(t))
          /\ signUps' = [signUps EXCEPT ![t] = [@ EXCEPT !.pc = "insert", !.pin = pin]]
     ELSE signUps' = [signUps EXCEPT ![t].pc = "pinError"]
  /\ UNCHANGED <<dbVars, authVars, pageVars, chatVars>>

\* signUp, after generatePin: the insert into profiles, then
\* if (profileError) throw profileError; set({ user: profileData }).
SignUpInsert(t) ==
  LET row == [id |-> signUps[t].id, private_pin |-> signUps[t].pin]
      st == InsertProfileState(SignUpCtx(t), row)
  IN /\ signUps[t].pc = "insert"
     /\ sqlstate' = st
     /\ IF st = "00000"
        THEN /\ profiles' = profiles \cup {row}
             /\ signUps' = [signUps EXCEPT ![t] = [@ EXCEPT !.pc = "done", !.user = row.id]]
        ELSE /\ profiles' = profiles
             /\ signUps' = [signUps EXCEPT ![t].pc = "profileError"]
     /\ UNCHANGED <<accounts, connections, chats, authVars, pageVars, chatVars>>

\* An INSERT INTO profiles by the tables' owner (the dashboard, a migration,
\* the service key): the one role the missing INSERT policy does not stop.
ProvisionProfile(id, pin) ==
  LET row == [id |-> id, private_pin |-> pin]
      st == InsertProfileState(Owner, row)
  IN /\ sqlstate' = st
     /\ profiles' = IF st = "00000" THEN profiles \cup {row} ELSE profiles
     /\ UNCHANGED <<accounts, connections, chats, signUps, authVars, pageVars, chatVars>>

\* ------------------------------------------- auth store and Chat page
\* fetchConnections for user.id = userId, sent as ctx, over table conns:
\*   .from('connections').select('connected_user_id, profiles:connected_user_id(*)')
\*   .eq('user_id', userId), then data.map((conn) => conn.profiles)
FetchConnections(conns, ctx, userId) ==
  { c.connected_user_id :
      c \in { v \in conns : /\ BypassRls(ctx) \/ ConnectionsSelectPolicy(ctx, v)
                            /\ v.user_id = userId } }

NoAddContact == [pc |-> "idle", uid |-> None, user_id |-> None,
                 profile_id |-> None, live |-> FALSE]

\* The Chat page unmounts: its state is dropped, and the setters of the
\* handlers still in flight no longer reach a mounted component.
Unmounted(tasks) == [k \in DOMAIN tasks |-> [tasks[k] EXCEPT !.live = FALSE]]

\* signIn: supabase.auth.signInWithPassword succeeds for account u. The Auth
\* page is routed only while user is null. (On an error signIn throws and
\* nothing changes.)
SignIn(u) ==
  /\ user = None
  /\ u \in accounts
  /\ session' = u
  /\ UNCHANGED <<dbVars, signUps, user, pageVars, chatVars>>

\* subscribeToChats(userId): a channel with the INSERT listener is
\* subscribed; the function it returns is dropped by the caller.
SubscribeToChats(chs, userId) == Append(chs, userId)

\* fetchProfile, with the Chat page's mount and effects that follow
\* set({ user }): the [user] effect (fetchConnections, subscribeToChats) runs
\* for every non-null user object, the [currentChat] effect on mount.
FetchProfile ==
  LET rows == IF session = None THEN {}
              ELSE { p \in VisibleProfiles(ClientCtx(session)) : p.id = session }
      data == IF Cardinality(rows) = 1 THEN (CHOOSE p \in rows : TRUE).id ELSE None
      mounts == user = None /\ data # None
      refetch == mounts /\ currentChat # None
  IN /\ data # None => Len(channels) < MaxChannels
     /\ refetch => Len(fetches) < MaxFetches
     /\ user' = data
     /\ IF data # None
        THEN /\ pageConnections' = FetchConnections(connections, ClientCtx(session), data)
             /\ channels' = SubscribeToChats(channels, data)
             /\ addContacts' = addContacts
             /\ error' = error
        ELSE /\ pageConnections' = {}
             /\ channels' = channels
             /\ addContacts' = Unmounted(addContacts)
             /\ error' = ""
     /\ fetches' = IF refetch
                   THEN Append(fetches, [uid |-> session, userId |-> data,
                                         receiverId |-> currentChat])
                   ELSE fetches
     /\ UNCHANGED <<dbVars, signUps, session, currentChat, storeChats, inbox,
                    filterReading>>

\* signOut (the page's log-out button): supabase.auth.signOut(), then
\* set({ user: null }), which unmounts the Chat page. (On an error signOut
\* throws and nothing changes.)
SignOut ==
  /\ user # None
  /\ session' = None
  /\ user' = None
  /\ pageConnections' = {}
  /\ error' = ""
  /\ addContacts' = Unmounted(addContacts)
  /\ UNCHANGED <<dbVars, signUps, chatVars>>

\* handleAddContact's checks with the self check left out
AddContactVerdict_NoSelfCheck(rows, userId) ==
  IF Cardinality(rows) # 1 THEN "User not found with this PIN" ELSE ""

\* handleAddContact's checks on the rows the PIN lookup returned (.single()
\* is an error unless there is exactly one): the error shown, "" for none.
AddContactVerdict(rows, userId) ==
  IF Cardinality(rows) # 1 THEN "User not found with this PIN"
  ELSE IF (CHOOSE p \in rows : TRUE).id = userId THEN "You cannot add yourself"
  ELSE ""

\* The row handleAddContact inserts, user and contact exchanged
ConnectionRow_Swapped(userId, profileId) ==
  [id |-> NewConnectionId, user_id |-> profileId, connected_user_id |-> userId]

\* The row handleAddContact inserts: { user_id: user.id, connected_user_id: profile.id }
ConnectionRow(userId, profileId) ==
  [id |-> NewConnectionId, user_id |-> userId, connected_user_id |-> profileId]

\* What the user may type into the PIN field: a six-digit PIN, or "1".
PinInputs == PinCandidates \cup {Digits(1)}

\* handleAddContact, to its second await: the lookup by pinToAdd and the two checks.
AddContactLookup(k, pinToAdd) ==
  LET rows == { p \in VisibleProfiles(ClientCtx(session)) : p.private_pin = pinToAdd }
      verdict == AddContactVerdict(rows, user)
  IN /\ user # None
     /\ addContacts[k].pc = "idle"
     /\ IF verdict = ""
        THEN /\ error' = error
             /\ addContacts' = [addContacts EXCEPT ![k] =
                  [pc |-> "insert", uid |-> session, user_id |-> user,
                   profile_id |-> (CHOOSE p \in rows : TRUE).id, live |-> TRUE]]
        ELSE /\ error' = verdict
             /\ addContacts' = addContacts
     /\ UNCHANGED <<dbVars, signUps, authVars, pageConnections, chatVars>>

\* handleAddContact, from the insert into connections to its end: the error,
\* or the modal closed and fetchConnections (its reply taken at once).
AddContactInsert(k) ==
  LET t == addContacts[k]
      row == ConnectionRow(t.user_id, t.profile_id)
      st == InsertConnectionState(ClientCtx(t.uid), row)
      after == IF st = "00000" THEN connections \cup {row} ELSE connections
  IN /\ t.pc = "insert"
     /\ sqlstate' = st
     /\ connections' = after
     /\ addContacts' = [addContacts EXCEPT ![k] = NoAddContact]
     /\ error' = IF t.live /\ st # "00000" THEN "Failed to add contact" ELSE error
     /\ pageConnections' =
          IF t.live /\ st = "00000"
          THEN FetchConnections(after, ClientCtx(session), t.user_id)
          ELSE pageConnections
     /\ UNCHANGED <<accounts, profiles, chats, signUps, authVars, chatVars>>

\* --------------------------------------------------------- chat store
Times == 1..MaxTime

\* Message texts: empty, one blank, and "hi".
Texts == { <<>>, <<" ">>, <<"h", "i">> }

RECURSIVE TrimStart(_)
TrimStart(s) == IF s # <<>> /\ Head(s) = " " THEN TrimStart(Tail(s)) ELSE s

RECURSIVE TrimEnd(_)
TrimEnd(s) ==
  IF s # <<>> /\ s[Len(s)] = " " THEN TrimEnd(SubSeq(s, 1, Len(s) - 1)) ELSE s

\* message.trim()
Trim(s) == TrimEnd(TrimStart(s))

\* fetchChats' filter with the second .or() left out
FetchChatsFilter_OneOr(m, userId, receiverId) ==
  m.sender_id = userId \/ m.receiver_id = userId

\* fetchChats' filter: .or(`sender_id.eq.${userId},receiver_id.eq.${userId}`)
\* .or(`sender_id.eq.${receiverId},receiver_id.eq.${receiverId}`); each .or()
\* is one more condition on the row.
FetchChatsFilter(m, userId, receiverId) ==
  /\ (m.sender_id = userId \/ m.receiver_id = userId)
  /\ (m.sender_id = receiverId \/ m.receiver_id = receiverId)

\* .order('created_at', { ascending: true }): the orders the rows may come
\* in (rows of one created_at in any order).
OrderByCreatedAt(rows) ==
  { q \in [1..Cardinality(rows) -> rows] :
      /\ \A i, j \in DOMAIN q : i # j => q[i] # q[j]
      /\ \A i, j \in DOMAIN q : i < j => q[i].created_at <= q[j].created_at }

\* fetchChats(userId, receiverId) sent as ctx over table cs: the data it may get.
FetchChats(cs, ctx, userId, receiverId) ==
  OrderByCreatedAt({ m \in VisibleChats(cs, ctx) : FetchChatsFilter(m, userId, receiverId) })

\* The readings of the subscription's filter
\* `sender_id=eq.${userId},receiver_id=eq.${userId}`, which is not one
\* column=operator.value filter: no row passes it (the value
\* "<userId>,receiver_id=eq.<userId>" is no uuid), or the text up to the
\* comma is the filter, or both conditions are required.
FilterReadings == { "invalid", "first", "all" }

RealtimeFilter(reading, userId, row) ==
  IF reading = "first" THEN row.sender_id = userId
  ELSE IF reading = "all" THEN row.sender_id = userId /\ row.receiver_id = userId
  ELSE FALSE

\* The payloads the realtime server pushes to the browser for a new row: one
\* per channel registration whose filter the row passes, if the browser's
\* token may read the row.
RealtimePushes(row) ==
  LET hit == { i \in DOMAIN channels :
                 /\ RealtimeFilter(filterReading, channels[i], row)
                 /\ ChatsSelectPolicy(ClientCtx(session), row) }
  IN [i \in 1..Cardinality(hit) |-> row]

\* The row sendMessage inserts: { message, receiver_id }, no sender_id.
SendMessageRow(message, receiverId, t) ==
  [id |-> NewChatId, sender_id |-> None, receiver_id |-> receiverId,
   message |-> message, created_at |-> t]

\* setCurrentChat(connection) from the contact list, with the [currentChat]
\* effect: fetchChats(user.id, currentChat.id) is sent.
SetCurrentChat(c) ==
  /\ user # None
  /\ c \in pageConnections
  /\ Len(fetches) < MaxFetches
  /\ currentChat' = c
  /\ fetches' = Append(fetches, [uid |-> session, userId |-> user, receiverId |-> c])
  /\ UNCHANGED <<dbVars, signUps, authVars, pageVars, storeChats, channels,
                 inbox, filterReading>>

\* fetchChats' reply for the i-th call in flight: set({ chats: data }).
FetchChatsReply(i) ==
  /\ i \in DOMAIN fetches
  /\ \E data \in FetchChats(chats, ClientCtx(fetches[i].uid), fetches[i].userId,
                             fetches[i].receiverId) : storeChats' = data
  /\ fetches' = SubSeq(fetches, 1, i - 1) \o SubSeq(fetches, i + 1, Len(fetches))
  /\ UNCHANGED <<dbVars, signUps, authVars, pageVars, currentChat, channels,
                 inbox, filterReading>>

\* handleSendMessage with sendMessage: nothing for a blank message or no
\* current chat; else the insert (created_at: now() = t), whose error is
\* thrown, caught and logged.
HandleSendMessage(message, t) ==
  LET row == SendMessageRow(message, currentChat, t)
      st == InsertChatState(ClientCtx(session), row)
  IN /\ user # None
     /\ IF Trim(message) = <<>> \/ currentChat = None
        THEN UNCHANGED <<chats, sqlstate, inbox>>
        ELSE /\ sqlstate' = st
             /\ chats' = IF st = "00000" THEN chats \cup {row} ELSE chats
             /\ inbox' = IF st = "00000" THEN inbox \o RealtimePushes(row) ELSE inbox
     /\ UNCHANGED <<accounts, profiles, connections, signUps, authVars, pageVars,
                    currentChat, storeChats, fetches, channels, filterReading>>

\* An insert into chats through the REST interface by account senderId, with
\* sender_id given: what the policy "Users can send messages" admits.
ApiInsertChat(senderId, receiverId, t) ==
  LET row == [id |-> NewChatId, sender_id |-> senderId, receiver_id |-> receiverId,
              message |-> <<"h", "i">>, created_at |-> t]
      st == InsertChatState(Authenticated(senderId), row)
  IN /\ sqlstate' = st
     /\ chats' = IF st = "00000" THEN chats \cup {row} ELSE chats
     /\ inbox' = IF st = "00000" THEN inbox \o RealtimePushes(row) ELSE inbox
     /\ UNCHANGED <<accounts, profiles, connections, signUps, authVars, pageVars,
                    currentChat, storeChats, fetches, channels, filterReading>>

\* The subscription's callback for the next payload:
\* set({ chats: [...chats, payload.new] }).
RealtimeCallback ==
  /\ inbox # <<>>
  /\ storeChats' = Append(storeChats, Head(inbox))
  /\ inbox' = Tail(inbox)
  /\ UNCHANGED <<dbVars, signUps, authVars, pageVars, currentChat, fetches,
                 channels, filterReading>>

\* ------------------------------------------------------ initial states
\* The stores and the page as created: user: null, chats: [],
\* currentChat: null, connections: [], error: ''.
InitClient ==
  /\ signUps = [t \in SignUpTasks |-> NoSignUp]
  /\ session = None
  /\ user = None
  /\ pageConnections = {}
  /\ error = ""
  /\ addContacts = [k \in AddContactSlots |-> NoAddContact]
  /\ currentChat = None
  /\ storeChats = <<>>
  /\ fetches = <<>>
  /\ channels = <<>>
  /\ inbox = <<>>

\* The database after the migration: the three tables, empty.
Init ==
  /\ InitClient
  /\ accounts = {}
  /\ profiles = {}
  /\ connections = {}
  /\ chats = {}
  /\ sqlstate = "00000"
  /\ filterReading = "invalid"

\* A database in which every account has its profile, user u with the PIN of
\* the number u - 1 (a state SpecSignUp reaches once MaxSignUps sign-ups
\* have created the accounts and the owner has inserted the profiles).
DirectoryRegistered ==
  /\ accounts = Users
  /\ profiles = { [id |-> u, private_pin |-> PinText(u - 1)] : u \in Users }

InitContacts ==
  /\ InitClient
  /\ DirectoryRegistered
  /\ connections = {}
  /\ chats = {}
  /\ sqlstate = "00000"
  /\ filterReading = "invalid"

AllEdges == { x \in Users \X Users : x[1] # x[2] }

\* The place of edge x among all edges, by owner and then contact.
EdgeRank(x) ==
  Cardinality({ y \in AllEdges : y[1] < x[1] \/ (y[1] = x[1] /\ y[2] <= x[2]) })

\* The directory registered and every user holding every other as a contact
\* (a state SpecContacts reaches once every user has signed in and added the
\* others), under any reading of the realtime filter.
InitChat ==
  /\ InitClient
  /\ DirectoryRegistered
  /\ connections = { [id |-> EdgeRank(x), user_id |-> x[1], connected_user_id |-> x[2]] :
                       x \in AllEdges }
  /\ chats = {}
  /\ sqlstate = "00000"
  /\ filterReading \in FilterReadings

\* As InitChat, the realtime server refusing the subscription's filter.
InitFetch == InitChat /\ filterReading = "invalid"

NextSignUp ==
  \/ \E t \in SignUpTasks, created \in BOOLEAN, hasSession \in BOOLEAN :
       SignUpAuth(t, created, hasSession)
  \/ \E t \in SignUpTasks, ok \in BOOLEAN, pin \in PinCandidates :
       GeneratePin(t, ok, pin)
  \/ \E t \in SignUpTasks : SignUpInsert(t)
  \/ \E id \in Users, pin \in PinCandidates : ProvisionProfile(id, pin)

NextContacts ==
  \/ \E u \in 1..MaxContactUsers : SignIn(u)
  \/ FetchProfile
  \/ SignOut
  \/ \E k \in AddContactSlots, pinToAdd \in PinInputs : AddContactLookup(k, pinToAdd)
  \/ \E k \in AddContactSlots : AddContactInsert(k)

NextChat ==
  \/ \E u \in 1..MaxChatUsers : SignIn(u)
  \/ FetchProfile
  \/ SignOut
  \/ \E c \in Users : SetCurrentChat(c)
  \/ \E i \in 1..MaxFetches : FetchChatsReply(i)
  \/ \E message \in Texts, t \in Times : HandleSendMessage(message, t)
  \/ \E senderId \in Users, receiverId \in Users, t \in Times :
       Cardinality(chats) < MaxChats /\ ApiInsertChat(senderId, receiverId, t)
  \/ RealtimeCallback

NextFetch ==
  \/ \E u \in 1..MaxChatUsers : SignIn(u)
  \/ FetchProfile
  \/ \E c \in Users : SetCurrentChat(c)
  \/ \E i \in 1..MaxFetches : FetchChatsReply(i)
  \/ \E senderId \in Users, receiverId \in Users, t \in Times :
       Cardinality(chats) < MaxFetchedChats /\ ApiInsertChat(senderId, receiverId, t)

\* Sign-up against the empty database.
SpecSignUp == Init /\ [][NextSignUp]_vars

\* One browser's sessions and its add-contact requests over a registered directory.
SpecContacts == InitContacts /\ [][NextContacts]_vars

\* One browser's sessions, conversations and realtime subscription, with
\* messages arriving through the REST interface.
SpecChat == InitChat /\ [][NextChat]_vars

\* The conversations one browser fetches while messages arrive through the
\* REST interface.
SpecFetch == InitFetch /\ [][NextFetch]_vars

\* ================================================================ claims
Between(m, a, b) ==
  \/ m.sender_id = a /\ m.receiver_id = b
  \/ m.sender_id = b /\ m.receiver_id = a

\* C1: no two rows of profiles hold the same private_pin, whatever the
\* sign-ups and their interleaving, two tasks holding the same candidate
\* included.
C1_PinUnique ==
  \A p, q \in profiles : p.private_pin = q.private_pin => p = q

\* Two sign-ups were given the same candidate and have both tried their
\* insert, a profile holds that PIN, and the database has just refused a
\* second row with an existing PIN.
C1_SameCandidateWitness ==
  \E t1, t2 \in SignUpTasks :
    /\ t1 # t2
    /\ signUps[t1].pc = "profileError" /\ signUps[t2].pc = "profileError"
    /\ signUps[t1].pin = signUps[t2].pin
    /\ \E p \in profiles : p.private_pin = signUps[t1].pin
    /\ Cardinality(profiles) >= 2
    /\ sqlstate = "23505 profiles_private_pin_key"

\* C2: every account of the identity provider has exactly one profile, in
\* every reachable state.
C2_AccountHasOneProfile ==
  \A a \in accounts : Cardinality({ p \in profiles : p.id = a }) = 1

\* C3: when user A presents the PIN of another existing profile B the request
\* goes on to the insert, and when no edge A->B exists at the insert it
\* succeeds and adds exactly the one row (A, B): no row B->A appears, every
\* other row stays, and B's contact list is what it was.
C3_AddContactAddsOneEdge ==
  [][ /\ \A k \in AddContactSlots, pin \in PinInputs :
           ( /\ AddContactLookup(k, pin)
             /\ \E p \in profiles : p.private_pin = pin /\ p.id # user )
           => /\ addContacts'[k].pc = "insert"
              /\ addContacts'[k].user_id = user
              /\ \E p \in profiles :
                   p.private_pin = pin /\ addContacts'[k].profile_id = p.id
              /\ error' = error
              /\ connections' = connections
      /\ \A k \in AddContactSlots :
           LET A == addContacts[k].user_id
               B == addContacts[k].profile_id
           IN ( /\ AddContactInsert(k)
                /\ A # B
                /\ ~\E c \in connections : c.user_id = A /\ c.connected_user_id = B )
              => /\ sqlstate' = "00000"
                 /\ \E row \in connections' :
                      /\ row \notin connections
                      /\ row.user_id = A /\ row.connected_user_id = B
                      /\ connections' = connections \cup {row}
                 /\ ~\E c \in connections' \ connections :
                      c.user_id = B /\ c.connected_user_id = A
                 /\ FetchConnections(connections', Authenticated(B), B)
                      = FetchConnections(connections, Authenticated(B), B)
                 /\ addContacts[k].live => error' = error
    ]_vars

\* User A's contact list shows B after A added B, and no row B->A exists.
C3_OneDirectionWitness ==
  \E c \in connections :
    /\ user = c.user_id
    /\ c.connected_user_id \in pageConnections
    /\ c.user_id \notin FetchConnections(connections,
         Authenticated(c.connected_user_id), c.connected_user_id)
    /\ ~\E d \in connections :
         d.user_id = c.connected_user_id /\ d.connected_user_id = c.user_id
    /\ sqlstate = "00000"

NoDuplicateConnection ==
  \A c, d \in connections :
    (c.user_id = d.user_id /\ c.connected_user_id = d.connected_user_id) => c = d

\* C4: connections never holds two rows for one (user_id, connected_user_id),
\* and an insert for a pair that is already there ends in the unique
\* violation, adds nothing and shows the failure, also with two requests of
\* one user for one PIN in flight.
C4_DuplicateRejected ==
  /\ []NoDuplicateConnection
  /\ [][ \A k \in AddContactSlots :
           ( /\ AddContactInsert(k)
             /\ \E c \in connections :
                  /\ c.user_id = addContacts[k].user_id
                  /\ c.connected_user_id = addContacts[k].profile_id )
           => /\ sqlstate' = "23505 connections_user_id_connected_user_id_key"
              /\ connections' = connections
              /\ addContacts[k].live => error' = "Failed to add contact"
       ]_vars

\* A duplicate has just been refused and shown, while another request for a
\* pair that is already connected is still in flight.
C4_DuplicateWitness ==
  /\ sqlstate = "23505 connections_user_id_connected_user_id_key"
  /\ error = "Failed to add contact"
  /\ \E k \in AddContactSlots :
       /\ addContacts[k].pc = "insert"
       /\ Cardinality({ c \in connections :
            /\ c.user_id = addContacts[k].user_id
            /\ c.connected_user_id = addContacts[k].profile_id }) = 1

NoSelfConnection == \A c \in connections : c.user_id # c.connected_user_id

\* C5: a PIN no profile has ends handleAddContact with "User not found with
\* this PIN", the user's own PIN with "You cannot add yourself"; neither
\* sends an insert nor changes connections, and no row of connections has its
\* owner as its target.
C5_NotFoundAndSelfRejected ==
  /\ []NoSelfConnection
  /\ [][ \A k \in AddContactSlots, pin \in PinInputs :
           AddContactLookup(k, pin)
           => /\ (~\E p \in profiles : p.private_pin = pin)
                   => /\ error' = "User not found with this PIN"
                      /\ addContacts' = addContacts
                      /\ connections' = connections
              /\ (\E p \in profiles : p.private_pin = pin /\ p.id = user)
                   => /\ error' = "You cannot add yourself"
                      /\ addContacts' = addContacts
                      /\ connections' = connections
       ]_vars

\* The user, who has contacts, has just been refused the own PIN.
C5_SelfRejectedWitness ==
  /\ user # None
  /\ error = "You cannot add yourself"
  /\ connections # {}
  /\ \A k \in AddContactSlots : addContacts[k].pc = "idle"

\* C6: for distinct users A and B, fetchChats(A, B) sent by A gets exactly the
\* rows of chats between A and B, each once, in ascending created_at; and
\* whatever conversation a user C fetches holds only rows C sent or received.
C6_FetchChatsExact ==
  /\ \A a, b \in Users : a # b =>
       \A q \in FetchChats(chats, Authenticated(a), a, b) :
         /\ { q[i] : i \in DOMAIN q } = { m \in chats : Between(m, a, b) }
         /\ \A i, j \in DOMAIN q : i # j => q[i].id # q[j].id
         /\ \A i, j \in DOMAIN q : i < j => q[i].created_at <= q[j].created_at
  /\ \A c, x \in Users :
       \A q \in FetchChats(chats, Authenticated(c), c, x) :
         \A i \in DOMAIN q : q[i].sender_id = c \/ q[i].receiver_id = c
  /\ \A i \in DOMAIN fetches :
       \A q \in FetchChats(chats, ClientCtx(fetches[i].uid), fetches[i].userId,
                           fetches[i].receiverId) :
         \A j \in DOMAIN q : Between(q[j], fetches[i].userId, fetches[i].receiverId)

\* The page shows a fetched conversation of two messages, the later insert
\* first because its created_at is the earlier, and without the older row
\* that the user exchanged with a third user.
C6_OrderedWitness ==
  /\ user # None /\ currentChat # None /\ fetches = <<>>
  /\ Len(storeChats) = 2
  /\ storeChats[1].id > storeChats[2].id
  /\ storeChats[1].created_at < storeChats[2].created_at
  /\ \A i \in DOMAIN storeChats : Between(storeChats[i], user, currentChat)
  /\ \E m \in chats :
       /\ m.id < storeChats[2].id
       /\ m.sender_id = user \/ m.receiver_id = user
       /\ ~Between(m, user, currentChat)

\* C7: once the user is subscribed, an inserted row the user sent or received
\* is pushed to the browser exactly once, and a row between two others not at
\* all.
C7_OneNotificationPerInsert ==
  [][ \A s, r \in Users, t \in Times :
        ( /\ ApiInsertChat(s, r, t)
          /\ chats' # chats
          /\ user # None
          /\ \E i \in DOMAIN channels : channels[i] = user )
        => Len(inbox') - Len(inbox) = IF s = user \/ r = user THEN 1 ELSE 0
    ]_vars

\* C8: once the session has ended no channel registration remains.
C8_UnsubscribedAtSessionEnd ==
  session = None => channels = <<>>

\* C9: a non-blank message submitted with a contact selected stores exactly
\* one new row, whose sender is the user, whose receiver is the contact and
\* whose text is the message.
C9_SendStoresOneRow ==
  [][ \A message \in Texts, t \in Times :
        ( /\ HandleSendMessage(message, t)
          /\ Trim(message) # <<>>
          /\ currentChat # None )
        => \E row \in chats' :
             /\ row \notin chats
             /\ chats' = chats \cup {row}
             /\ row.sender_id = user
             /\ row.receiver_id = currentChat
             /\ row.message = message
    ]_vars

\* C10: with no fetchChats in flight, every message of the rendered list is
\* one between the user and the current chat, and no id is listed twice.
C10_ListIsCurrentConversation ==
  (fetches = <<>> /\ user # None /\ currentChat # None)
  => /\ \A i \in DOMAIN storeChats : Between(storeChats[i], user, currentChat)
     /\ \A i, j \in DOMAIN storeChats : i # j => storeChats[i].id # storeChats[j].id
====
